---- MODULE Spec2Model ----
(***************************************************************************)
(* Company matching pipeline: URL -> company key normalisation              *)
(* (preprocessor.py), exact matching of two record tables (matcher.py),     *)
(* the duplicate pass over the persisted matched tables (postprocess.py)    *)
(* and the batch driver (main.py).                                          *)
(*                                                                          *)
(* Strings are sequences of tokens: a token is a separator ("://", "/",     *)
(* ".", "?", " ", ...) or a maximal run of other characters.  A company key *)
(* is the sequence of its dot-separated labels, so <<"acme","com">> is      *)
(* "acme.com", <<"","">> is "." and <<>> is the empty string.               *)
(***************************************************************************)
EXTENDS Integers, Sequences, FiniteSets, TLC

\* ------------------------------------------------------------------------
\* Generic sequence helpers
\* ------------------------------------------------------------------------
Range(s) == {s[i] : i \in DOMAIN s}

SeqsUpTo(S, n) == UNION {[1..k -> S] : k \in 0..n}

RECURSIVE SelectIdx(_, _, _)
\* the subsequence of s at the indices of I, in order
SelectIdx(s, I, i) ==
  IF i > Len(s) THEN <<>>
  ELSE (IF i \in I THEN <<s[i]>> ELSE <<>>) \o SelectIdx(s, I, i + 1)

RECURSIVE Flatten(_)
Flatten(ss) == IF ss = <<>> THEN <<>> ELSE Head(ss) \o Flatten(Tail(ss))

RECURSIVE ConcatAll(_)
\* ''.join(toks)
ConcatAll(toks) == IF toks = <<>> THEN "" ELSE Head(toks) \o ConcatAll(Tail(toks))

FirstIdx(s, P(_)) ==
  IF \E i \in DOMAIN s : P(s[i]) THEN CHOOSE i \in DOMAIN s : P(s[i]) /\ \A j \in 1..(i - 1) : ~P(s[j])
  ELSE 0

LastIdx(s, P(_)) ==
  IF \E i \in DOMAIN s : P(s[i]) THEN CHOOSE i \in DOMAIN s : P(s[i]) /\ \A j \in (i + 1)..Len(s) : ~P(s[j])
  ELSE 0

RECURSIVE SplitOn(_, _)
\* str.split(sep): the segments of toks between the separator tokens
SplitOn(toks, sep) ==
  LET i == FirstIdx(toks, LAMBDA t : t = sep)
  IN IF i = 0 THEN <<toks>>
     ELSE <<SubSeq(toks, 1, i - 1)>> \o SplitOn(SubSeq(toks, i + 1, Len(toks)), sep)

\* ------------------------------------------------------------------------
\* preprocessor.py: URLPreprocessor
\* ------------------------------------------------------------------------
\* str.lower() on the tokens of the universe
Lower(t) ==
  CASE t = "HTTP" -> "http"
    [] t = "HTTPS" -> "https"
    [] t = "WWW" -> "www"
    [] t = "Example" -> "example"
    [] t = "Acme" -> "acme"
    [] t = "COM" -> "com"
    [] t = "LinkedIn" -> "linkedin"
    [] t = "Acme-Corp" -> "acme-corp"
    [] t = "Company" -> "company"
    [] t = "WEB" -> "web"
    [] t = "Facebook" -> "facebook"
    [] t = "Webflow" -> "webflow"
    [] t = "Gamma" -> "gamma"
    [] t = "IO" -> "io"
    [] t = "CO" -> "co"
    [] t = "UK" -> "uk"
    [] OTHER -> t

\* urllib.parse.unquote on one token (tokens without an escape are unchanged)
Unquote(t) ==
  CASE t = "acme%2Dcorp" -> "acme-corp"
    [] t = "acme%20corp" -> "acme corp"
    [] t = "%20" -> " "
    [] OTHER -> t

\* re.sub(r'[^\w\-]', '', t): drop every character that is no word character and no hyphen
StripNonWord(t) ==
  CASE t \in {"://", "//", "/", ".", "?", ":", "@", "#", " ", "=", "&"} -> ""
    [] t = "acme corp" -> "acmecorp"
    [] OTHER -> t

SlashToks == {"/", "//", "://"}

\* self.country_codes
country_codes ==
  {"ac", "ad", "ae", "af", "ag", "ai", "al", "am", "ao", "aq", "ar", "as", "at", "au", "aw", "ax", "az",
   "ba", "bb", "bd", "be", "bf", "bg", "bh", "bi", "bj", "bl", "bm", "bn", "bo", "bq", "br", "bs", "bt",
   "bv", "bw", "by", "bz", "ca", "cc", "cd", "cf", "cg", "ch", "ci", "ck", "cl", "cm", "cn", "co", "cr",
   "cu", "cv", "cw", "cx", "cy", "cz", "de", "dj", "dk", "dm", "do", "dz", "ec", "ee", "eg", "eh", "er",
   "es", "et", "eu", "fi", "fj", "fk", "fm", "fo", "fr", "ga", "gb", "gd", "ge", "gf", "gg", "gh", "gi",
   "gl", "gm", "gn", "gp", "gq", "gr", "gs", "gt", "gu", "gw", "gy", "hk", "hm", "hn", "hr", "ht", "hu",
   "id", "ie", "il", "im", "in", "io", "iq", "ir", "is", "it", "je", "jm", "jo", "jp", "ke", "kg", "kh",
   "ki", "km", "kn", "kp", "kr", "kw", "ky", "kz", "la", "lb", "lc", "li", "lk", "lr", "ls", "lt", "lu",
   "lv", "ly", "ma", "mc", "md", "me", "mf", "mg", "mh", "mk", "ml", "mm", "mn", "mo", "mp", "mq", "mr",
   "ms", "mt", "mu", "mv", "mw", "mx", "my", "mz", "na", "nc", "ne", "nf", "ng", "ni", "nl", "no", "np",
   "nr", "nu", "nz", "om", "pa", "pe", "pf", "pg", "ph", "pk", "pl", "pm", "pn", "pr", "ps", "pt", "pw",
   "py", "qa", "re", "ro", "rs", "ru", "rw", "sa", "sb", "sc", "sd", "se", "sg", "sh", "si", "sk", "sl",
   "sm", "sn", "so", "sr", "ss", "st", "sv", "sx", "sy", "sz", "tc", "td", "tf", "tg", "th", "tj", "tk",
   "tl", "tm", "tn", "to", "tr", "tt", "tv", "tw", "tz", "ua", "ug", "uk", "us", "uy", "uz", "va", "vc",
   "ve", "vg", "vi", "vn", "vu", "wf", "ws", "ye", "yt", "za", "zm", "zw"}

common_suffixes == {"business", "webflow", "site", "com"}

common_prefixes == {"www", "web", "corp", "corporate", "about", "info", "shop", "company"}

SocialHosts == {"facebook", "zaubacorp", "linkedin"}

\* The public suffixes tldextract knows, each as its labels (the part of the
\* public suffix list the URLs of the model can reach).
PublicSuffixes ==
  {<<"com">>, <<"io">>, <<"org">>, <<"net">>, <<"in">>, <<"uk">>, <<"co", "uk">>}

\* re.sub(r'^https?://http//', 'http://', url)
FixDuplicatedScheme(url) ==
  IF /\ Len(url) >= 4
     /\ url[1] \in {"http", "https"}
     /\ url[2] = "://"
     /\ url[3] = "http"
     /\ url[4] = "//"
  THEN <<"http", "://">> \o SubSeq(url, 5, Len(url))
  ELSE url

\* tldextract: the URL without its scheme ("scheme://" with scheme characters only)
Schemeless(url) ==
  LET i == FirstIdx(url, LAMBDA t : t \in {"//", "://"})
  IN IF i = 1 /\ url[1] = "//" THEN Tail(url)
     ELSE IF i >= 2 /\ url[i] = "://"
              /\ \A j \in 1..(i - 1) : url[j] \notin (SlashToks \cup {"?", ":", "@", "#", " ", "=", "&"})
          THEN SubSeq(url, i + 1, Len(url))
          ELSE url

RECURSIVE StripLeft(_, _)
StripLeft(toks, drop) ==
  IF toks # <<>> /\ Head(toks) \in drop THEN StripLeft(Tail(toks), drop) ELSE toks

RECURSIVE StripRight(_, _)
StripRight(toks, drop) ==
  IF toks # <<>> /\ toks[Len(toks)] \in drop
  THEN StripRight(SubSeq(toks, 1, Len(toks) - 1), drop) ELSE toks

\* toks up to, not including, position c (all of toks when c = 0)
Before(toks, c) == IF c = 0 THEN toks ELSE SubSeq(toks, 1, c - 1)

\* toks after position c
After(toks, c) == SubSeq(toks, c + 1, Len(toks))

\* .partition("/")[0].partition("?")[0].partition("#")[0]
HostPart(s) == Before(s, FirstIdx(s, LAMBDA t : t \in (SlashToks \cup {"?", "#"})))

\* .rpartition("@")[-1]
NoUserInfo(a) == After(a, LastIdx(a, LAMBDA t : t = "@"))

\* .partition(":")[0]
NoPort(b) == Before(b, FirstIdx(b, LAMBDA t : t = ":"))

\* A faulty variant of Netloc: the host is not stripped of whitespace.
NetlocUnstripped(url) ==
  StripRight(NoPort(NoUserInfo(HostPart(Schemeless(url)))), {"."})

\* tldextract: the host of the URL (up to the first "/", "?" or "#", after the
\* user info, before the port, without surrounding blanks and trailing dots)
Netloc(url) ==
  StripRight(StripRight(StripLeft(NoPort(NoUserInfo(HostPart(Schemeless(url)))), {" "}), {" "}), {"."})

JoinEach(segs) == [k \in DOMAIN segs |-> ConcatAll(segs[k])]

\* the labels of a host: host.split('.')
Labels(host) == JoinEach(SplitOn(host, "."))

LowerAll(ls) == [k \in DOMAIN ls |-> Lower(ls[k])]

\* tldextract: where the longest public suffix of the labels starts (Len + 1 when none)
SuffixStart(ls) ==
  LET n == Len(ls)
      S == {k \in 1..n : LowerAll(SubSeq(ls, k, n)) \in PublicSuffixes}
  IN IF S = {} THEN n + 1 ELSE CHOOSE k \in S : \A j \in S : k <= j

\* the labels ls with the public suffix starting at k: subdomain, domain, suffix
ExtractResult(ls, k) ==
  [subdomain |-> IF k >= 3 THEN SubSeq(ls, 1, k - 2) ELSE <<>>,
   domain |-> IF k >= 2 THEN ls[k - 1] ELSE "",
   suffix |-> SubSeq(ls, k, Len(ls))]

ExtractLabels(ls) == ExtractResult(ls, SuffixStart(ls))

\* tldextract.extract(url): subdomain, domain and suffix, each as its labels
TldExtract(url) == ExtractLabels(Labels(Netloc(url)))

\* '.'.join(parts), as the labels of the joined string
JoinDots(parts) == IF parts = <<"">> THEN <<>> ELSE parts

\* where re.sub(r'(\?.*)|(\/about.*)', '', url) starts to cut (0: nowhere)
CutStart(url) ==
  FirstIdx([k \in DOMAIN url |->
              IF url[k] = "?" THEN "cut"
              ELSE IF url[k] \in SlashToks /\ k < Len(url)
                      /\ url[k + 1] \in {"about", "aboutus", "about-us", "about-face"}
                   THEN "cut" ELSE "keep"],
           LAMBDA m : m = "cut")

\* the URL cut at position c: a cut inside "://" or "//" leaves the characters before its last slash
CutAt(url, c) ==
  IF c = 0 THEN url
  ELSE SubSeq(url, 1, c - 1)
       \o (IF url[c] = "://" THEN <<":/">> ELSE IF url[c] = "//" THEN <<"/">> ELSE <<>>)

UnquoteAll(toks) == [k \in DOMAIN toks |-> Unquote(toks[k])]

\* '/company/' in url or '/in/' in url
HasMarker(dec) ==
  \E k \in 1..(Len(dec) - 2) :
    /\ dec[k] \in SlashToks
    /\ dec[k + 1] \in {"company", "in"}
    /\ dec[k + 2] \in {"/", "//"}

\* s.split('/')[-1]
LastSegment(s) == After(s, LastIdx(s, LAMBDA t : t \in SlashToks \cup {":/"}))

\* the entity name of the decoded URL
EntityName(dec) == IF HasMarker(dec) THEN LastSegment(StripRight(dec, {"/", "//"})) ELSE dec

\* re.sub(r'[^\w\-]', '', entity_name.lower())
Normalize(entity) == ConcatAll([k \in DOMAIN entity |-> StripNonWord(Lower(entity[k]))])

\* preprocess_linkedin_url: the profile or company slug, "" when nothing is left
preprocess_linkedin_url(url) == Normalize(EntityName(UnquoteAll(CutAt(url, CutStart(url)))))

\* f"{extracted.domain}.{extracted.suffix}", as labels
FullDomain(extracted) ==
  <<extracted.domain>> \o (IF extracted.suffix = <<>> THEN <<"">> ELSE extracted.suffix)

\* the name the prefixes are removed from: with the subdomain when the domain
\* is a country code or a hosting platform
CompanyName(extracted) ==
  IF /\ extracted.subdomain # <<>> /\ extracted.subdomain # <<"">>
     /\ (extracted.domain \in country_codes \/ extracted.domain \in common_suffixes)
  THEN extracted.subdomain \o FullDomain(extracted)
  ELSE FullDomain(extracted)

\* the parts of the name that are no common prefix
CleanedDomainParts(domain_parts) ==
  SelectIdx(domain_parts, {k \in DOMAIN domain_parts : Lower(domain_parts[k]) \notin common_prefixes}, 1)

\* the standard domain key of the extracted parts
DomainKey(extracted) == LowerAll(JoinDots(CleanedDomainParts(CompanyName(extracted))))

\* the key, given the parts tldextract found and the social profile slug
KeyOf(extracted, linkedin_processed) ==
  IF extracted.domain \in SocialHosts /\ linkedin_processed # ""
  THEN <<linkedin_processed>>
  ELSE DomainKey(extracted)

\* the company key of a URL whose duplicated scheme has been repaired
ExtractFixed(url) == KeyOf(TldExtract(url), preprocess_linkedin_url(url))

\* extract_domain_and_company: the company key of a URL
extract_domain_and_company(url) == ExtractFixed(FixDuplicatedScheme(url))

\* ------------------------------------------------------------------------
\* Tables: pandas DataFrames in memory, CSV files on disk
\* ------------------------------------------------------------------------
\* A cell is a string (token sequence) or NaN.  A DataFrame is its column names
\* and its rows (each row a tuple of cells, one per column); None is the
\* "no result" value the stages return on failure.
NaN == <<"<NaN>">>

None == [none |-> TRUE, cols |-> <<>>, rows |-> <<>>]

DF(cols, rows) == [none |-> FALSE, cols |-> cols, rows |-> rows]

\* df.empty
IsEmpty(df) == df.cols = <<>> \/ df.rows = <<>>

HasCol(df, c) == \E i \in DOMAIN df.cols : df.cols[i] = c

ColIdx(df, c) == CHOOSE i \in DOMAIN df.cols : df.cols[i] = c

\* df[c] as the list of its values
Col(df, c) == [r \in DOMAIN df.rows |-> df.rows[r][ColIdx(df, c)]]

\* df[mask]: the rows at the indices of I, in order
Rows(df, I) == DF(df.cols, SelectIdx(df.rows, I, 1))

\* df[[c1, ..., cn]]
Project(df, cs) ==
  DF(cs, [r \in DOMAIN df.rows |-> [k \in DOMAIN cs |-> df.rows[r][ColIdx(df, cs[k])]]])

\* df[c] = values: overwrite the column, or append it as the last one
SetCol(df, c, vals) ==
  IF HasCol(df, c)
  THEN DF(df.cols, [r \in DOMAIN df.rows |->
                      [k \in DOMAIN df.cols |-> IF k = ColIdx(df, c) THEN vals[r] ELSE df.rows[r][k]]])
  ELSE DF(Append(df.cols, c), [r \in DOMAIN df.rows |-> Append(df.rows[r], vals[r])])

\* A file is absent, or holds a header line and rows of text fields; <<>> is
\* the empty field.
Absent == [exists |-> FALSE, cols |-> <<>>, rows |-> <<>>]

File(cols, rows) == [exists |-> TRUE, cols |-> cols, rows |-> rows]

\* the texts pandas.read_csv takes for a missing value (those the keys can spell)
NaLiterals == {<<>>, <<"nan">>, <<"null">>, <<"none">>}

ReadCsvCell(f) == IF f \in NaLiterals THEN NaN ELSE f

\* to_csv writes NaN, and the empty string, as the empty field
WriteCsvCell(c) == IF c = NaN THEN <<>> ELSE c

\* pd.read_csv(path) succeeds: the file exists and has a header
CanRead(f) == f.exists /\ f.cols # <<>>

\* pd.read_csv(path)
read_csv(f) ==
  DF(f.cols, [r \in DOMAIN f.rows |-> [k \in DOMAIN f.rows[r] |-> ReadCsvCell(f.rows[r][k])]])

\* df.to_csv(path, index=False)
to_csv(df) ==
  File(df.cols, [r \in DOMAIN df.rows |-> [k \in DOMAIN df.rows[r] |-> WriteCsvCell(df.rows[r][k])]])

\* ------------------------------------------------------------------------
\* matcher.py: Matcher
\* ------------------------------------------------------------------------
NoRename == <<>>

\* df.rename(columns=rename_dict)
Rename(cols, rename_dict) ==
  [i \in DOMAIN cols |-> IF cols[i] \in DOMAIN rename_dict THEN rename_dict[cols[i]] ELSE cols[i]]

\* df.dropna(subset=[id_column, url_column])
\* A faulty variant of DropNa: dropna(subset=[url_column]).
DropNaUrlOnly(df, id_column, url_column) ==
  Rows(df, {r \in DOMAIN df.rows : df.rows[r][ColIdx(df, url_column)] # NaN})

DropNa(df, id_column, url_column) ==
  Rows(df, {r \in DOMAIN df.rows : /\ df.rows[r][ColIdx(df, id_column)] # NaN
                                   /\ df.rows[r][ColIdx(df, url_column)] # NaN})

\* A faulty variant of load_clean_and_rename_dataframe: no check of df.empty.
load_without_empty_check(f, id_column, url_column, rename_dict) ==
  IF ~CanRead(f) THEN None
  ELSE IF ~HasCol(DF(Rename(f.cols, rename_dict), <<>>), id_column)
          \/ ~HasCol(DF(Rename(f.cols, rename_dict), <<>>), url_column) THEN None
  ELSE DropNa(DF(Rename(f.cols, rename_dict), read_csv(f).rows), id_column, url_column)

\* load_clean_and_rename_dataframe: the cleaned table, None on any failure
load_clean_and_rename_dataframe(f, id_column, url_column, rename_dict) ==
  IF ~CanRead(f) THEN None
  ELSE LET df == read_csv(f)
           renamed == DF(Rename(df.cols, rename_dict), df.rows)
       IN IF IsEmpty(df) THEN None
          ELSE IF ~HasCol(renamed, id_column) \/ ~HasCol(renamed, url_column) THEN None
          ELSE DropNa(renamed, id_column, url_column)

\* A faulty variant of preprocess_urls: no check for an empty table.
preprocess_urls_unchecked(df, url_column, company_column) ==
  IF df.none THEN None
  ELSE IF ~HasCol(df, url_column) THEN None
  ELSE SetCol(df, company_column,
              [r \in DOMAIN df.rows |-> extract_domain_and_company(df.rows[r][ColIdx(df, url_column)])])

\* preprocess_urls: the table with its company key column, None on any failure
preprocess_urls(df, url_column, company_column) ==
  IF df.none \/ IsEmpty(df) THEN None
  ELSE IF ~HasCol(df, url_column) THEN None
  ELSE SetCol(df, company_column,
              [r \in DOMAIN df.rows |-> extract_domain_and_company(df.rows[r][ColIdx(df, url_column)])])

\* process_companys(crm_companys, cd_companys, match_type='exact'): per left
\* key the matched key, NaN (None) when the key is no right key
process_companys_exact(crm_companys, cd_companys) ==
  LET set1 == Range(cd_companys)
  IN [i \in DOMAIN crm_companys |-> IF crm_companys[i] \in set1 THEN crm_companys[i] ELSE NaN]

\* float('inf'): greater than every distance
Infinity == 1000000

RECURSIVE levenshtein(_, _)
\* polyleven.levenshtein(a, b): the number of character insertions, deletions
\* and substitutions that turn a into b
levenshtein(a, b) ==
  IF a = <<>> THEN Len(b)
  ELSE IF b = <<>> THEN Len(a)
  ELSE CHOOSE d \in {levenshtein(Tail(a), b) + 1,
                      levenshtein(a, Tail(b)) + 1,
                      levenshtein(Tail(a), Tail(b)) + (IF Head(a) = Head(b) THEN 0 ELSE 1)} :
         \A e \in {levenshtein(Tail(a), b) + 1,
                    levenshtein(a, Tail(b)) + 1,
                    levenshtein(Tail(a), Tail(b)) + (IF Head(a) = Head(b) THEN 0 ELSE 1)} : d <= e

\* A faulty variant of Closer: a key at the same distance replaces the best match.
CloserOrEqual(dist, min_distance) == dist <= min_distance

\* if dist < min_distance
Closer(dist, min_distance) == dist < min_distance

RECURSIVE FuzzyScan(_, _, _, _, _)
\* the loop of find_best_match_with_distance_poly from position k on
FuzzyScan(cd_company, crm_companys, k, best_match, min_distance) ==
  IF k > Len(crm_companys) THEN <<best_match, min_distance>>
  ELSE IF Closer(levenshtein(cd_company, crm_companys[k]), min_distance)
       THEN FuzzyScan(cd_company, crm_companys, k + 1, crm_companys[k],
                      levenshtein(cd_company, crm_companys[k]))
       ELSE FuzzyScan(cd_company, crm_companys, k + 1, best_match, min_distance)

\* find_best_match_with_distance_poly(cd_company, crm_companys): (best_match,
\* min_distance), starting from best_match = None
find_best_match_with_distance_poly(cd_company, crm_companys) ==
  FuzzyScan(cd_company, crm_companys, 1, <<"<None>">>, Infinity)

\* process_companys(crm_companys, cd_companys) with any other match_type than
\* 'exact': per left key the triple (key, best match, distance)
process_companys_fuzzy(crm_companys, cd_companys) ==
  [k \in DOMAIN crm_companys |->
     <<crm_companys[k]>> \o find_best_match_with_distance_poly(crm_companys[k], cd_companys)]

\* pd.merge gives a column name present on both sides the suffix _x or _y
Suffixed(cols, other, sfx) ==
  [i \in DOMAIN cols |-> IF cols[i] \in Range(other) THEN cols[i] \o sfx ELSE cols[i]]

\* A faulty variant of Merge: how='cross', every left row with every right row.
MergeCross(df1, df2, lk, rk) ==
  DF(Suffixed(df1.cols, df2.cols, "_x") \o Suffixed(df2.cols, df1.cols, "_y"),
     Flatten([r \in DOMAIN df1.rows |-> [k \in DOMAIN df2.rows |-> df1.rows[r] \o df2.rows[k]]]))

\* A faulty variant of Merge: a lookup that pairs a left row with the first
\* key-equal right row only.
MergeFirstMatch(df1, df2, lk, rk) ==
  DF(Suffixed(df1.cols, df2.cols, "_x") \o Suffixed(df2.cols, df1.cols, "_y"),
     Flatten([r \in DOMAIN df1.rows |->
       LET J == {j \in DOMAIN df2.rows :
                   df2.rows[j][ColIdx(df2, rk)] = df1.rows[r][ColIdx(df1, lk)]}
       IN IF J = {} THEN <<>>
          ELSE <<df1.rows[r] \o df2.rows[CHOOSE j \in J : \A k \in J : j <= k]>>]))

\* pd.merge(df1, df2, left_on=lk, right_on=rk): inner join in the order of the
\* left rows, each with its key-equal right rows in their order
Merge(df1, df2, lk, rk) ==
  DF(Suffixed(df1.cols, df2.cols, "_x") \o Suffixed(df2.cols, df1.cols, "_y"),
     Flatten([i \in DOMAIN df1.rows |->
       LET J == {j \in DOMAIN df2.rows :
                   df2.rows[j][ColIdx(df2, rk)] = df1.rows[i][ColIdx(df1, lk)]}
           right == SelectIdx(df2.rows, J, 1)
       IN [k \in DOMAIN right |-> df1.rows[i] \o right[k]]]))

\* match_companies: the matched table, None on any failure
match_companies(df1, df2, company_col1, company_col2, id_col1, id_col2, url_col1, url_col2) ==
  IF df1.none \/ df2.none \/ IsEmpty(df1) \/ IsEmpty(df2) THEN None
  ELSE IF ~HasCol(df1, company_col1) \/ ~HasCol(df2, company_col2) THEN None
  ELSE LET results == process_companys_exact(Col(df1, company_col1), Col(df2, company_col2))
           df1m == SetCol(df1, "exact_match", results)
           result_df == Merge(df1m, df2, "exact_match", company_col2)
           wanted == <<id_col1, id_col2, url_col1, url_col2, company_col1, company_col2>>
       IN IF \E k \in DOMAIN wanted : ~HasCol(result_df, wanted[k]) THEN None
          ELSE Project(result_df, wanted)

\* A faulty variant of Unmatched: the anti-join is on the URL, not the identifier.
UnmatchedByUrl(df1, matched_df, id_col1, url_col1) ==
  Project(Rows(df1, {r \in DOMAIN df1.rows :
                       df1.rows[r][ColIdx(df1, url_col1)] \notin Range(Col(matched_df, url_col1))}),
          <<id_col1, url_col1>>)

\* df1[~df1[id_col1].isin(matched_df[id_col1])][[id_col1, url_col1]]
Unmatched(df1, matched_df, id_col1, url_col1) ==
  Project(Rows(df1, {r \in DOMAIN df1.rows :
                       df1.rows[r][ColIdx(df1, id_col1)] \notin Range(Col(matched_df, id_col1))}),
          <<id_col1, url_col1>>)

\* A path is its directory and the tokens of its file name.
Path(dir, name) == [dir |-> dir, name |-> name]

\* write df to path p unless the write raises (p \in bad); [ok, fs]
WriteFile(files, p, df, bad) ==
  IF p \in bad THEN [ok |-> FALSE, fs |-> files]
  ELSE [ok |-> TRUE, fs |-> [files EXCEPT ![p] = to_csv(df)]]

\* A faulty variant of save_results: the unmatched table is written first.
save_results_unmatched_first(files, matched_df, unmatched_df, matched_path, unmatched_path, bad) ==
  IF matched_df.none \/ unmatched_df.none THEN files
  ELSE IF IsEmpty(matched_df) /\ IsEmpty(unmatched_df) THEN files
  ELSE IF ~WriteFile(files, unmatched_path, unmatched_df, bad).ok THEN files
  ELSE WriteFile(WriteFile(files, unmatched_path, unmatched_df, bad).fs,
                 matched_path, matched_df, bad).fs

\* save_results: matched first, then unmatched; an exception ends the call
save_results(files, matched_df, unmatched_df, matched_path, unmatched_path, bad) ==
  IF matched_df.none \/ unmatched_df.none THEN files
  ELSE IF IsEmpty(matched_df) /\ IsEmpty(unmatched_df) THEN files
  ELSE LET w1 == WriteFile(files, matched_path, matched_df, bad)
       IN IF ~w1.ok THEN w1.fs
          ELSE WriteFile(w1.fs, unmatched_path, unmatched_df, bad).fs

\* Matcher.process after match_companies: the unmatched rows, then save_results
ProcessMatched(files, op, bad, l1, l2, k1, k2, matched_df, unmatched_df) ==
  [fs |-> IF matched_df.none THEN files
          ELSE save_results(files, matched_df, unmatched_df, op.matched_path, op.unmatched_path, bad),
   loaded1 |-> l1, loaded2 |-> l2, keyed1 |-> k1, keyed2 |-> k2,
   matched_df |-> matched_df, unmatched_df |-> unmatched_df]

\* Matcher.process after preprocess_urls: match_companies unless a table is None
ProcessKeyed(files, op, bad, l1, l2, k1, k2, matched_df) ==
  ProcessMatched(files, op, bad, l1, l2, k1, k2, matched_df,
                 IF matched_df.none THEN None ELSE Unmatched(k1, matched_df, op.id_col1, op.url_col1))

\* Matcher.process after the two loads: preprocess_urls on both unless a load failed
ProcessLoaded(files, op, bad, l1, l2, k1, k2) ==
  ProcessKeyed(files, op, bad, l1, l2, k1, k2,
               IF k1.none \/ k2.none THEN None
               ELSE match_companies(k1, k2, op.company_col1, op.company_col2,
                                    op.id_col1, op.id_col2, op.url_col1, op.url_col2))

ProcessLoads(files, op, bad, l1, l2) ==
  ProcessLoaded(files, op, bad, l1, l2,
                IF l1.none \/ l2.none THEN None ELSE preprocess_urls(l1, op.url_col1, op.company_col1),
                IF l1.none \/ l2.none THEN None ELSE preprocess_urls(l2, op.url_col2, op.company_col2))

\* Matcher.process(**op): the files after the call and the tables of its
\* stages (None for a stage that failed or was not reached)
process(files, op, bad) ==
  ProcessLoads(files, op, bad,
               load_clean_and_rename_dataframe(files[op.file_path1], op.id_col1, op.url_col1, op.rename_dict1),
               load_clean_and_rename_dataframe(files[op.file_path2], op.id_col2, op.url_col2, op.rename_dict2))

\* ------------------------------------------------------------------------
\* postprocess.py
\* ------------------------------------------------------------------------
InDir == "./input_data"

MatchDir == "./match_tables"

UnmatchDir == "./unmatch_tables"

CrmFile == Path(InDir, <<"VW_SF_CRM_MATCH.csv">>)

CbFile == Path(InDir, <<"VW_CB_MATCH.csv">>)

SsFile == Path(InDir, <<"VW_SS_COMPANY_MATCH.csv">>)

BdCompanyFile == Path(InDir, <<"VW_BD_COMPANY_MATCH.csv">>)

BdPeopleFile == Path(InDir, <<"VW_BD_PEOPLE_MATCH.csv">>)

LinkedinCrmFile == Path(InDir, <<"linkedin_crm_comp.csv">>)

LinkedinBdFile == Path(InDir, <<"linkedin_bd_comp.csv">>)

CrmBdMatched == Path(MatchDir, <<"crm_bd_comp_", "matched", ".csv">>)

\* the rows of df whose value in column c is not among vals: df[~df[c].isin(vals)]
NotIn(df, c, vals) ==
  Rows(df, {r \in DOMAIN df.rows : df.rows[r][ColIdx(df, c)] \notin Range(vals)})

\* get_bd_linkedin_company_urls: the files after the call (it catches every exception)
get_bd_linkedin_company_urls(files, bad) ==
  IF ~CanRead(files[CrmBdMatched]) \/ ~CanRead(files[CrmFile]) \/ ~CanRead(files[BdCompanyFile])
  THEN files
  ELSE LET result_df == read_csv(files[CrmBdMatched])
           crm_df == read_csv(files[CrmFile])
           bd_df == read_csv(files[BdCompanyFile])
       IN IF IsEmpty(result_df) \/ IsEmpty(crm_df) \/ IsEmpty(bd_df) THEN files
          ELSE IF ~HasCol(crm_df, "ID") \/ ~HasCol(result_df, "CRM_ID") THEN files
          ELSE IF ~HasCol(bd_df, "ID") \/ ~HasCol(result_df, "ID") THEN files
          ELSE LET unmatched_crm == NotIn(crm_df, "ID", Col(result_df, "CRM_ID"))
                   unmatched_bd == NotIn(bd_df, "ID", Col(result_df, "ID"))
                   w1 == WriteFile(files, LinkedinCrmFile, unmatched_crm, bad)
               IN IF IsEmpty(unmatched_crm) \/ IsEmpty(unmatched_bd) THEN files
                  ELSE IF ~w1.ok THEN w1.fs
                  ELSE WriteFile(w1.fs, LinkedinBdFile, unmatched_bd, bad).fs

RECURSIVE ReplaceMatched(_)
\* file_name.replace('matched', 'duplicate_matched')
ReplaceMatched(name) ==
  IF name = <<>> THEN <<>>
  ELSE (IF Head(name) = "matched" THEN <<"duplicate_", "matched">> ELSE <<Head(name)>>)
       \o ReplaceMatched(Tail(name))

\* os.path.join(dir_name, file_name.replace('matched', 'duplicate_matched'))
DuplicateFile(matched_path) == Path(matched_path.dir, ReplaceMatched(matched_path.name))

\* the value of the last column in row r
LastCell(df, r) == df.rows[r][Len(df.cols)]

\* A faulty variant of Duplicates: duplicated() on the whole row, without subset.
DuplicatesWholeRow(df) ==
  Rows(df, {r \in DOMAIN df.rows : \E q \in DOMAIN df.rows : q # r /\ df.rows[q] = df.rows[r]})

\* df[df.duplicated(subset=[last_column], keep=False)]
Duplicates(df) ==
  Rows(df, {r \in DOMAIN df.rows :
              \E q \in DOMAIN df.rows : q # r /\ LastCell(df, q) = LastCell(df, r)})

\* A faulty variant of NonDuplicates: drop_duplicates with the default keep='first'.
NonDuplicatesKeepFirst(df) ==
  Rows(df, {r \in DOMAIN df.rows :
              \A q \in DOMAIN df.rows : q < r => LastCell(df, q) # LastCell(df, r)})

\* df.drop_duplicates(subset=[last_column], keep=False)
NonDuplicates(df) ==
  Rows(df, {r \in DOMAIN df.rows :
              \A q \in DOMAIN df.rows : q # r => LastCell(df, q) # LastCell(df, r)})

\* The strings a last column can hold, in ascending order of Python's str comparison.
StrOrder ==
  << <<"", "">>, <<"acme-corp">>, <<"acme", "com">>, <<"beta", "io">>, <<"gamma", "co", "uk">>,
     <<"jane-doe">> >>

StrRank(v) == CHOOSE i \in DOMAIN StrOrder : StrOrder[i] = v

\* rows without the first occurrence of row x
RECURSIVE RemoveOne(_, _)
RemoveOne(rows, x) ==
  IF rows = <<>> THEN <<>>
  ELSE IF Head(rows) = x THEN Tail(rows) ELSE <<Head(rows)>> \o RemoveOne(Tail(rows), x)

\* the rows that may come first: those whose last value is the least
Least(rows) ==
  {rows[a] : a \in {a \in DOMAIN rows :
                      \A b \in DOMAIN rows :
                        StrRank(rows[a][Len(rows[a])]) <= StrRank(rows[b][Len(rows[b])])}}

\* the orders of rows that ascend in the last value
RECURSIVE Ascending(_)
Ascending(rows) ==
  IF rows = <<>> THEN {<<>>}
  ELSE UNION {{<<x>> \o t : t \in Ascending(RemoveOne(rows, x))} : x \in Least(rows)}

\* A faulty variant of SortValues: the rows are left in the order of the file.
SortValuesUnsorted(df) == {df}

\* duplicates.sort_values(by=[last_column]): ascending, NaN rows last in their
\* original order; the default sort is not stable, so rows with equal values
\* may come out in any order
SortValues(df) ==
  {DF(df.cols, p \o SelectSeq(df.rows, LAMBDA row : row[Len(row)] = NaN)) :
     p \in Ascending(SelectSeq(df.rows, LAMBDA row : row[Len(row)] # NaN))}

\* process_matched_output(operation), with duplicates_sorted the outcome of the
\* sort: the duplicate file is written first, then the matched file; any
\* exception is logged and raised again
process_matched_output(files, op, duplicates_sorted, bad) ==
  LET matched_path == op.matched_path
      duplicate_file == DuplicateFile(matched_path)
      df == read_csv(files[matched_path])
      w1 == WriteFile(files, duplicate_file, duplicates_sorted, bad)
      w2 == WriteFile(w1.fs, matched_path, NonDuplicates(df), bad)
  IN IF ~CanRead(files[matched_path])
     THEN [raised |-> TRUE, fs |-> files, df |-> None, duplicates |-> None,
           non_duplicates |-> None, duplicates_sorted |-> None]
     ELSE [raised |-> ~w1.ok \/ ~w2.ok,
           fs |-> IF ~w1.ok THEN files ELSE w2.fs,
           df |-> df, duplicates |-> Duplicates(df),
           non_duplicates |-> NonDuplicates(df), duplicates_sorted |-> duplicates_sorted]

\* the outcomes sort_values allows for the matched file of op
SortOutcomes(files, op) ==
  IF CanRead(files[op.matched_path])
  THEN SortValues(Duplicates(read_csv(files[op.matched_path])))
  ELSE {None}

\* A faulty variant of OnDedupRaise: the exception leaves the loop.
OnDedupRaiseAbort(j, n) == [next |-> n + 1, escaped |-> TRUE]

\* process_all_matched_outputs: process_matched_output raised on operation j of
\* n; the except clause logs and continues with the next operation
OnDedupRaise(j, n) == [next |-> j + 1, escaped |-> FALSE]

\* ------------------------------------------------------------------------
\* main.py: the configured operations
\* ------------------------------------------------------------------------
PeopleName == "CRM to Brightdata Linkedin People URL Matching"

CrmRename == [c \in {"ID"} |-> "CRM_ID"]

Operation(name, fp1, fp2, id1, id2, url1, url2, c1, c2, mp, up, rd1, rd2) ==
  [name |-> name, file_path1 |-> fp1, file_path2 |-> fp2, id_col1 |-> id1, id_col2 |-> id2,
   url_col1 |-> url1, url_col2 |-> url2, company_col1 |-> c1, company_col2 |-> c2,
   matched_path |-> mp, unmatched_path |-> up, rename_dict1 |-> rd1, rename_dict2 |-> rd2]

OpCrmCb ==
  Operation("CRM to Crunchbase Company URL Matching", CrmFile, CbFile, "CRM_ID", "UUID",
            "COMPANY_WEBSITE", "HOMEPAGE_URL", "crm_company", "cb_company",
            Path(MatchDir, <<"crm_cb_", "matched", ".csv">>),
            Path(UnmatchDir, <<"crm_cb_un", "matched", ".csv">>), CrmRename, NoRename)

OpCrmSs ==
  Operation("CRM to Sourcescrub Company URL Matching", CrmFile, SsFile, "CRM_ID", "ID",
            "COMPANY_WEBSITE", "WEBSITE", "crm_company", "ss_company",
            Path(MatchDir, <<"crm_ss_", "matched", ".csv">>),
            Path(UnmatchDir, <<"crm_ss_un", "matched", ".csv">>), CrmRename, NoRename)

OpCbSs ==
  Operation("Crunchbase to Sourcescrub Company URL Matching", CbFile, SsFile, "UUID", "ID",
            "HOMEPAGE_URL", "WEBSITE", "cb_company", "ss_company",
            Path(MatchDir, <<"cb_ss_", "matched", ".csv">>),
            Path(UnmatchDir, <<"cb_ss_un", "matched", ".csv">>), CrmRename, NoRename)

OpCrmBdComp ==
  Operation("CRM to Brightdata Company Website URL Matching", CrmFile, BdCompanyFile, "CRM_ID", "ID",
            "COMPANY_WEBSITE", "WEBSITE", "crm_company", "bd_company",
            CrmBdMatched,
            Path(UnmatchDir, <<"crm_bd_comp_un", "matched", ".csv">>),
            CrmRename, [c \in {"COMPANY_WEBSITE"} |-> "WEBSITE"])

OpCrmBdLinkedin ==
  Operation("CRM to Brightdata Linkedin Company URL Matching", LinkedinCrmFile, LinkedinBdFile,
            "CRM_ID", "ID", "LINKEDIN_URL_COMPANY", "LINKEDIN_URL", "crm_company", "bd_company",
            Path(MatchDir, <<"crm_bd_linkedin_comp_", "matched", ".csv">>),
            Path(UnmatchDir, <<"crm_bd_comp_un", "matched", ".csv">>), CrmRename, NoRename)

OpCrmBdPeople ==
  Operation(PeopleName, CrmFile, BdPeopleFile, "CRM_ID", "ID",
            "LINKEDIN_URL_PERSON", "LINKEDIN_URL_PERSON_BD", "crm_company", "bd_company",
            Path(MatchDir, <<"crm_bd_people_", "matched", ".csv">>),
            Path(UnmatchDir, <<"crm_bd_people_un", "matched", ".csv">>),
            CrmRename, [c \in {"LINKEDIN_URL_PERSON"} |-> "LINKEDIN_URL_PERSON_BD"])

\* main(): matching_operations
matching_operations ==
  <<OpCrmCb, OpCrmSs, OpCbSs, OpCrmBdComp, OpCrmBdLinkedin, OpCrmBdPeople>>

\* matcher.py, example usage: the CRM to Crunchbase operation with its own output paths
OpExample ==
  Operation("example", CrmFile, CbFile, "CRM_ID", "UUID",
            "COMPANY_WEBSITE", "HOMEPAGE_URL", "crm_company", "cb_company",
            Path(MatchDir, <<"crm_cb_", "match", ".csv">>),
            Path("./umatch_tables", <<"crm_cb_un", "matched", ".csv">>), CrmRename, NoRename)

OutPaths(op) == {op.matched_path, op.unmatched_path, DuplicateFile(op.matched_path)}

AllOps == Range(matching_operations) \cup {OpExample}

AllPaths ==
  {CrmFile, CbFile, SsFile, BdCompanyFile, BdPeopleFile, LinkedinCrmFile, LinkedinBdFile}
  \cup UNION {OutPaths(op) : op \in AllOps}

\* ------------------------------------------------------------------------
\* State
\* ------------------------------------------------------------------------
VARIABLES
  fs,          \* the files: path -> Absent or a CSV file
  ops,         \* the list of operations of the batch
  faulty,      \* the paths on which a write may raise (full disk, missing directory)
  pc,          \* "match": main's matching loop; "dedup": process_all_matched_outputs;
               \* "return": back in main; "done": main has returned
  i,           \* the index of the next operation of the running loop
  run,         \* the tables of the stages of the last Matcher.process call
  dd,          \* the tables of the last process_matched_output call
  matchTried,  \* the operations Matcher.process was called for
  dedupTried,  \* the operations process_matched_output was called for
  escaped,     \* an exception left process_all_matched_outputs
  arg,         \* the argument of a call of a function of URLPreprocessor on its own
  res          \* the result of that call

vars == <<fs, ops, faulty, pc, i, run, dd, matchTried, dedupTried, escaped, arg, res>>

\* no function is called on its own
NoCall == [fn |-> "none"]

NoResult == [done |-> FALSE]

NoRun ==
  [op |-> 0, loaded1 |-> None, loaded2 |-> None, keyed1 |-> None, keyed2 |-> None,
   matched_df |-> None, unmatched_df |-> None]

NoDedup ==
  [op |-> 0, raised |-> FALSE, before |-> Absent, df |-> None, duplicates |-> None,
   non_duplicates |-> None, duplicates_sorted |-> None]

\* ------------------------------------------------------------------------
\* Input universes
\* ------------------------------------------------------------------------
MaxLeft == 2

MaxRight == 2

MaxMatched == 3

UrlAcme == <<"http", "://", "acme", ".", "com">>

UrlWwwAcme == <<"http", "://", "www", ".", "acme", ".", "com">>

UrlAcmeSlash == <<"https", "://", "acme", ".", "com", "/">>

UrlBeta == <<"http", "://", "beta", ".", "io">>

UrlGamma == <<"http", "://", "gamma", ".", "co", ".", "uk">>

UrlBlank == <<" ">>

Empty == <<>>

\* rows of the left source file (identifier, URL); Empty is a null field
LeftRowPool ==
  {<< <<"1">>, UrlAcme >>, << <<"1">>, UrlGamma >>, << <<"2">>, UrlBlank >>,
   << <<"2">>, Empty >>, << Empty, UrlAcme >>}

\* rows of the right source file (identifier, URL)
RightRowPool ==
  {<< <<"8">>, UrlWwwAcme >>, << <<"9">>, UrlAcmeSlash >>, << <<"9">>, UrlBeta >>,
   << <<"8">>, UrlBlank >>, << <<"9">>, Empty >>}

\* a source file without its URL column
NoUrlColumn == File(<<"ID", "NAME">>, << << <<"1">>, <<"acme">> >> >>)

\* a source file that exists and holds nothing, not even a header
EmptyFile == File(<<>>, <<>>)

LeftFiles ==
  {Absent, NoUrlColumn, EmptyFile}
  \cup {File(<<"ID", "COMPANY_WEBSITE">>, rows) : rows \in SeqsUpTo(LeftRowPool, MaxLeft)}

RightFiles ==
  {Absent, NoUrlColumn, EmptyFile}
  \cup {File(<<"UUID", "HOMEPAGE_URL">>, rows) : rows \in SeqsUpTo(RightRowPool, MaxRight)}

KeyAcme == <<"acme", "com">>

KeyBeta == <<"beta", "io">>

KeyDot == <<"", "">>

\* rows of a matched file left on disk by an earlier run
MatchedRowPool ==
  {<< <<"1">>, <<"8">>, UrlAcme, UrlWwwAcme, KeyAcme, KeyAcme >>,
   << <<"1">>, <<"9">>, UrlAcme, UrlAcmeSlash, KeyAcme, KeyAcme >>,
   << <<"2">>, <<"9">>, UrlBeta, UrlBeta, KeyBeta, KeyBeta >>,
   << <<"2">>, <<"8">>, UrlBlank, UrlBlank, KeyDot, KeyDot >>,
   << <<"3">>, <<"7">>, <<"www">>, <<"web">>, Empty, Empty >>}

MatchedCols == <<"CRM_ID", "UUID", "COMPANY_WEBSITE", "HOMEPAGE_URL", "crm_company", "cb_company">>

RowAcme8 == << <<"1">>, <<"8">>, UrlAcme, UrlWwwAcme, KeyAcme, KeyAcme >>

RowAcme9 == << <<"1">>, <<"9">>, UrlAcme, UrlAcmeSlash, KeyAcme, KeyAcme >>

RowBeta == << <<"2">>, <<"9">>, UrlBeta, UrlBeta, KeyBeta, KeyBeta >>

RowNoKey == << <<"3">>, <<"7">>, <<"www">>, <<"web">>, Empty, Empty >>

\* matched files of up to MaxMatched rows, and two with two groups of rows on
\* one right key, the groups interleaved
MatchedFiles ==
  {File(MatchedCols, <<RowBeta, RowAcme8, RowBeta, RowAcme9>>),
   File(MatchedCols, <<RowNoKey, RowBeta, RowNoKey, RowBeta>>)}
  \cup {File(MatchedCols, rows) : rows \in SeqsUpTo(MatchedRowPool, MaxMatched)}

NoFiles == [p \in AllPaths |-> Absent]

\* ------------------------------------------------------------------------
\* Initial states
\* ------------------------------------------------------------------------
InitControl ==
  /\ pc = "match"
  /\ i = 1
  /\ run = NoRun
  /\ dd = NoDedup
  /\ matchTried = {}
  /\ dedupTried = {}
  /\ escaped = FALSE
  /\ arg = NoCall
  /\ res = NoResult

\* one operation on two source files, no output on disk yet
InitFresh ==
  /\ ops = <<OpCrmCb>>
  /\ \E left \in LeftFiles, right \in RightFiles :
       fs = [NoFiles EXCEPT ![CrmFile] = left, ![CbFile] = right]
  /\ faulty = {}

\* one operation whose sources are gone, its matched file left by an earlier run
InitStale ==
  /\ \E op \in {OpCrmCb, OpExample} :
       /\ ops = <<op>>
       /\ \E m \in MatchedFiles : fs = [NoFiles EXCEPT ![op.matched_path] = m]
  /\ faulty = {}

Init == InitControl /\ (InitFresh \/ InitStale)

\* ------------------------------------------------------------------------
\* Actions
\* ------------------------------------------------------------------------
\* main: one iteration of the matching loop
MainLoopStep ==
  /\ pc = "match"
  /\ \E bad \in SUBSET (faulty \cap (OutPaths(ops[i]) \cup {LinkedinCrmFile, LinkedinBdFile})) :
       \E r \in {process(IF ops[i].name = PeopleName
                            THEN get_bd_linkedin_company_urls(fs, bad) ELSE fs, ops[i], bad)} :
          /\ fs' = r.fs
          /\ run' = [op |-> i, loaded1 |-> r.loaded1, loaded2 |-> r.loaded2,
                     keyed1 |-> r.keyed1, keyed2 |-> r.keyed2,
                     matched_df |-> r.matched_df, unmatched_df |-> r.unmatched_df]
  /\ matchTried' = matchTried \cup {i}
  /\ IF i < Len(ops) THEN i' = i + 1 /\ pc' = "match" ELSE i' = 1 /\ pc' = "dedup"
  /\ UNCHANGED <<ops, faulty, dd, dedupTried, escaped, arg, res>>

\* process_all_matched_outputs: one iteration of its loop
DedupStep ==
  /\ pc = "dedup"
  /\ \E bad \in SUBSET (faulty \cap OutPaths(ops[i])), srt \in SortOutcomes(fs, ops[i]) :
       \E r \in {process_matched_output(fs, ops[i], srt, bad)} :
       \E nxt \in {IF r.raised THEN OnDedupRaise(i, Len(ops)) ELSE [next |-> i + 1, escaped |-> FALSE]} :
          /\ fs' = r.fs
          /\ dd' = [op |-> i, raised |-> r.raised, before |-> fs[ops[i].matched_path], df |-> r.df,
                    duplicates |-> r.duplicates, non_duplicates |-> r.non_duplicates,
                    duplicates_sorted |-> r.duplicates_sorted]
          /\ escaped' = nxt.escaped
          /\ i' = nxt.next
          /\ pc' = IF nxt.next <= Len(ops) THEN "dedup" ELSE "return"
  /\ dedupTried' = dedupTried \cup {i}
  /\ UNCHANGED <<ops, faulty, run, matchTried, arg, res>>

\* main: process_all_matched_outputs is over (returned, or raised into main's
\* outer except clause); main logs and returns
MainReturn ==
  /\ pc = "return"
  /\ pc' = "done"
  /\ UNCHANGED <<fs, ops, faulty, i, run, dd, matchTried, dedupTried, escaped, arg, res>>

Next == MainLoopStep \/ DedupStep \/ MainReturn

Spec == Init /\ [][Next]_vars

\* ------------------------------------------------------------------------
\* The configured batch: main() on its six operations
\* ------------------------------------------------------------------------
UrlLinkedinAcme ==
  <<"https", "://", "www", ".", "linkedin", ".", "com", "/", "company", "/", "acme-corp">>

UrlLinkedinJane == <<"https", "://", "www", ".", "linkedin", ".", "com", "/", "in", "/", "jane-doe">>

CrmGood ==
  File(<<"ID", "COMPANY_WEBSITE", "LINKEDIN_URL_COMPANY", "LINKEDIN_URL_PERSON">>,
       << << <<"1">>, UrlAcme, UrlLinkedinAcme, UrlLinkedinJane >>,
          << <<"2">>, UrlGamma, UrlLinkedinAcme, UrlLinkedinJane >> >>)

CbGood ==
  File(<<"UUID", "HOMEPAGE_URL">>,
       << << <<"8">>, UrlWwwAcme >>, << <<"9">>, UrlAcmeSlash >> >>)

SsGood == File(<<"ID", "WEBSITE">>, << << <<"7">>, UrlAcmeSlash >> >>)

BdCompanyGood ==
  File(<<"ID", "COMPANY_WEBSITE", "LINKEDIN_URL">>,
       << << <<"5">>, UrlWwwAcme, UrlLinkedinAcme >>, << <<"6">>, UrlBeta, UrlLinkedinAcme >> >>)

BdPeopleGood == File(<<"ID", "LINKEDIN_URL_PERSON">>, << << <<"4">>, UrlLinkedinJane >> >>)

\* the output paths whose writes may raise in a batch run
FaultCandidates ==
  {OpCrmCb.matched_path, OpCrmSs.unmatched_path, DuplicateFile(OpCrmBdComp.matched_path)}

\* the six operations; the derived LinkedIn inputs are absent or those an
\* earlier run of main left in ./input_data
InitBatch ==
  /\ InitControl
  /\ ops = matching_operations
  /\ \E crm \in {Absent, CrmGood}, cb \in {Absent, CbGood}, ss \in {Absent, SsGood},
        bdc \in {Absent, BdCompanyGood}, bdp \in {Absent, BdPeopleGood},
        earlier \in {<<Absent, Absent>>,
                     <<File(CrmGood.cols, <<CrmGood.rows[2]>>),
                       File(BdCompanyGood.cols, <<BdCompanyGood.rows[2]>>)>>} :
       fs = [NoFiles EXCEPT ![CrmFile] = crm, ![CbFile] = cb, ![SsFile] = ss,
                            ![BdCompanyFile] = bdc, ![BdPeopleFile] = bdp,
                            ![LinkedinCrmFile] = earlier[1], ![LinkedinBdFile] = earlier[2]]
  /\ faulty \in SUBSET FaultCandidates

SpecBatch == InitBatch /\ [][Next]_vars

\* ------------------------------------------------------------------------
\* URLPreprocessor on its own: one call of one of its functions
\* ------------------------------------------------------------------------
\* a letter-case variant of a scheme or host token
Vary(t) ==
  CASE t = "http" -> "HTTP"
    [] t = "https" -> "HTTPS"
    [] t = "www" -> "WWW"
    [] t = "web" -> "WEB"
    [] t = "example" -> "Example"
    [] t = "acme" -> "Acme"
    [] t = "webflow" -> "Webflow"
    [] t = "gamma" -> "Gamma"
    [] t = "linkedin" -> "LinkedIn"
    [] t = "facebook" -> "Facebook"
    [] t = "com" -> "COM"
    [] t = "io" -> "IO"
    [] t = "co" -> "CO"
    [] t = "uk" -> "UK"
    [] OTHER -> t

VaryAll(toks, on) == IF on THEN [k \in DOMAIN toks |-> Vary(toks[k])] ELSE toks

Schemes == {<<>>, <<"http", "://">>, <<"https", "://">>}

\* hosts as labels: a plain domain, a hosting platform, a two-label suffix, two social hosts
Hosts ==
  {<<"example", "com">>, <<"acme", "webflow", "io">>, <<"gamma", "co", "uk">>,
   <<"linkedin", "com">>, <<"facebook", "com">>}

Paths ==
  {<<>>,
   <<"/">>,
   <<"/", "acme-corp">>,
   <<"/", "company", "/", "acme-corp">>,
   <<"/", "company", "/", "acme-corp", "/", "about">>,
   <<"/", "company", "/", "Acme-Corp", "/", "?", "ref", "=", "1">>,
   <<"/", "company", "/", "acme%2Dcorp", "/">>,
   <<"/", "company", "/", "acme%20corp">>,
   <<"/", "company", "/", "about-face">>,
   <<"/", "company", "/", "%20">>,
   <<"/", "in", "/", "jane_doe", "/">>}

RECURSIVE Dotted(_)
\* the labels of a host joined by dots
Dotted(ls) == IF Len(ls) <= 1 THEN ls ELSE <<Head(ls), ".">> \o Dotted(Tail(ls))

\* the URL of a scheme, a host under a prefix label ("" for none) and a path,
\* with the letters of the scheme or of the host varied
BuildUrl(scheme, pfx, host, path, upScheme, upHost) ==
  VaryAll(scheme, upScheme)
  \o VaryAll(Dotted((IF pfx = "" THEN <<>> ELSE <<pfx>>) \o host), upHost)
  \o path


\* the URL as given and its variant
BaseUrl(c) == BuildUrl(c.scheme, "", c.host, c.path, FALSE, FALSE)

VariantUrl(c) == BuildUrl(c.scheme, c.pfx, c.host, c.path, c.upScheme, c.upHost)

\* the program is idle
Idle ==
  /\ pc = "done"
  /\ i = 1
  /\ fs = NoFiles
  /\ ops = <<>>
  /\ faulty = {}
  /\ run = NoRun
  /\ dd = NoDedup
  /\ matchTried = {}
  /\ dedupTried = {}
  /\ escaped = FALSE

\* the files when the matched file of the operation holds table f
Given(f) == [NoFiles EXCEPT ![OpCrmCb.matched_path] = f]

\* the files when the duplicate file a pass wrote is given as the matched file
AmbiguousGiven(files) == Given(files[DuplicateFile(OpCrmCb.matched_path)])

\* the clean and the ambiguous table of a pass
Tables(p) == [clean |-> p.non_duplicates, ambiguous |-> p.duplicates_sorted]

\* company keys as their characters
FuzzyKeys == {<<>>, <<"a">>, <<"b">>, <<"a", "b">>, <<"b", "a">>}

\* one call: extract_domain_and_company on a URL and a variant of it,
\* process_matched_output on a matched file, or process_companys with the
\* fuzzy strategy
InitFn ==
  /\ Idle
  /\ res = NoResult
  /\ arg \in [fn : {"extract"}, scheme : Schemes, host : Hosts, path : Paths,
              pfx : {"", "www", "web"}, upScheme : BOOLEAN, upHost : BOOLEAN]
             \cup [fn : {"dedup"}, table : MatchedFiles]
             \cup [fn : {"fuzzy"}, crm_companys : SeqsUpTo(FuzzyKeys, MaxLeft),
                   cd_companys : SeqsUpTo(FuzzyKeys, MaxRight)]

\* extract_domain_and_company on a URL and on its variant
ExtractKey ==
  /\ arg.fn = "extract"
  /\ ~res.done
  /\ res' = [done |-> TRUE,
             key |-> extract_domain_and_company(BaseUrl(arg)),
             variant |-> extract_domain_and_company(VariantUrl(arg))]
  /\ UNCHANGED <<fs, ops, faulty, pc, i, run, dd, matchTried, dedupTried, escaped, arg>>

\* process_matched_output on a matched file, then again on the clean table it
\* wrote back and on the ambiguous table it wrote
Rerun ==
  /\ arg.fn = "dedup"
  /\ ~res.done
  /\ \E srt1 \in SortOutcomes(Given(arg.table), OpCrmCb) :
       \E p1 \in {process_matched_output(Given(arg.table), OpCrmCb, srt1, {})} :
         \E srt2 \in SortOutcomes(p1.fs, OpCrmCb), srt3 \in SortOutcomes(AmbiguousGiven(p1.fs), OpCrmCb) :
           res' = [done |-> TRUE,
                   first |-> Tables(p1),
                   onClean |-> Tables(process_matched_output(p1.fs, OpCrmCb, srt2, {})),
                   onAmbiguous |-> Tables(process_matched_output(AmbiguousGiven(p1.fs), OpCrmCb, srt3, {}))]
  /\ UNCHANGED <<fs, ops, faulty, pc, i, run, dd, matchTried, dedupTried, escaped, arg>>

\* process_companys(crm_companys, cd_companys, match_type='fuzzy')
FuzzyMatch ==
  /\ arg.fn = "fuzzy"
  /\ ~res.done
  /\ res' = [done |-> TRUE, results |-> process_companys_fuzzy(arg.crm_companys, arg.cd_companys)]
  /\ UNCHANGED <<fs, ops, faulty, pc, i, run, dd, matchTried, dedupTried, escaped, arg>>

NextFn == ExtractKey \/ Rerun \/ FuzzyMatch

SpecFn == InitFn /\ [][NextFn]_vars

\* ------------------------------------------------------------------------
\* Properties
\* ------------------------------------------------------------------------
\* the number of elements of s equal to x
Count(s, x) == Cardinality({k \in DOMAIN s : s[k] = x})

\* the operation of the last Matcher.process call, and its tables
RunOp == ops[run.op]

\* Matcher.process ran on two tables that were non-empty after null filtering
NonEmptyInputs ==
  /\ run.op # 0
  /\ ~run.loaded1.none /\ ~IsEmpty(run.loaded1)
  /\ ~run.loaded2.none /\ ~IsEmpty(run.loaded2)

LeftId(r) == run.keyed1.rows[r][ColIdx(run.keyed1, RunOp.id_col1)]

LeftUrl(r) == run.keyed1.rows[r][ColIdx(run.keyed1, RunOp.url_col1)]

LeftKey(r) == run.keyed1.rows[r][ColIdx(run.keyed1, RunOp.company_col1)]

RightId(r) == run.keyed2.rows[r][ColIdx(run.keyed2, RunOp.id_col2)]

RightUrl(r) == run.keyed2.rows[r][ColIdx(run.keyed2, RunOp.url_col2)]

RightKey(r) == run.keyed2.rows[r][ColIdx(run.keyed2, RunOp.company_col2)]

RightKeys == {RightKey(r) : r \in DOMAIN run.keyed2.rows}

MatchedIds == Range(Col(run.matched_df, RunOp.id_col1))

UnmatchedIds == Range(Col(run.unmatched_df, RunOp.id_col1))

\* C1 as stated: after Matcher.process on non-empty tables every left record's
\* identifier is in exactly one of the matched and the unmatched table, in the
\* matched one iff the record's own key is the key of some right record.
C1_AsStated ==
  NonEmptyInputs =>
    /\ ~run.matched_df.none
    /\ \A r \in DOMAIN run.keyed1.rows :
         /\ (LeftId(r) \in MatchedIds) # (LeftId(r) \in UnmatchedIds)
         /\ (LeftId(r) \in MatchedIds) <=> (LeftKey(r) \in RightKeys)

\* C1 (amended): after Matcher.process on non-empty tables every left record's
\* identifier is in exactly one of the matched and the unmatched table; it is in
\* the matched table iff the key of some left record carrying that identifier
\* is the key of some right record.  Both tables are what the call saved.
C1_ExactMatchCompleteness ==
  NonEmptyInputs =>
    /\ ~run.matched_df.none
    /\ \A r \in DOMAIN run.keyed1.rows :
         /\ (LeftId(r) \in MatchedIds) # (LeftId(r) \in UnmatchedIds)
         /\ (LeftId(r) \in MatchedIds) <=>
              \E q \in DOMAIN run.keyed1.rows : LeftId(q) = LeftId(r) /\ LeftKey(q) \in RightKeys
    /\ dd.op = 0 =>
         /\ fs[RunOp.matched_path] = to_csv(run.matched_df)
         /\ fs[RunOp.unmatched_path] = to_csv(run.unmatched_df)

\* a run that left one left record matched and another unmatched
C1_Witness ==
  /\ NonEmptyInputs
  /\ run.matched_df.rows # <<>>
  /\ run.unmatched_df.rows # <<>>

\* the tables of the last process_matched_output call that read its matched file
Deduped == dd.op # 0 /\ ~dd.df.none

\* C2: process_matched_output splits the matched table into a clean and an
\* ambiguous table: every row of the table is in exactly one of them, with its
\* multiplicity, and the clean table is the table without the ambiguous rows,
\* in the original order.
C2_DedupPartition ==
  Deduped =>
    /\ Range(dd.duplicates_sorted.rows) \cup Range(dd.non_duplicates.rows) = Range(dd.df.rows)
    /\ Range(dd.duplicates_sorted.rows) \cap Range(dd.non_duplicates.rows) = {}
    /\ \A row \in Range(dd.df.rows) :
         Count(dd.df.rows, row)
           = Count(dd.duplicates_sorted.rows, row) + Count(dd.non_duplicates.rows, row)
    /\ dd.non_duplicates.rows
         = SelectSeq(dd.df.rows, LAMBDA row : row \notin Range(dd.duplicates_sorted.rows))
    /\ dd.non_duplicates.cols = dd.df.cols
    /\ dd.duplicates_sorted.cols = dd.df.cols

\* a pass that found ambiguous rows and clean rows
C2_Witness ==
  /\ Deduped
  /\ dd.duplicates_sorted.rows # <<>>
  /\ dd.non_duplicates.rows # <<>>

\* the values of the last column of a table
LastValues(df) == [r \in DOMAIN df.rows |-> df.rows[r][Len(df.cols)]]

\* C3: a row of the matched table goes to the ambiguous table iff the value of
\* its last column occurs in at least two rows of the table; every value of the
\* ambiguous table's last column occurs there at least twice and never in the
\* clean table.  For a matched file written by the Matcher in this run the
\* last column is company_col2, the right-side company key.
C3_DedupMembership ==
  Deduped =>
    /\ \A r \in DOMAIN dd.df.rows :
         (dd.df.rows[r] \in Range(dd.duplicates_sorted.rows))
           <=> Count(LastValues(dd.df), LastValues(dd.df)[r]) >= 2
    /\ \A v \in Range(LastValues(dd.duplicates_sorted)) :
         /\ Count(LastValues(dd.duplicates_sorted), v) >= 2
         /\ Count(LastValues(dd.non_duplicates), v) = 0
    /\ (run.op = dd.op /\ ~run.matched_df.none) =>
         /\ dd.df.cols[Len(dd.df.cols)] = ops[dd.op].company_col2
         /\ LastValues(dd.df)
              = [r \in DOMAIN run.matched_df.rows |->
                   ReadCsvCell(WriteCsvCell(Col(run.matched_df, ops[dd.op].company_col2)[r]))]

\* two pairs on one right key went to the ambiguous table, an unrelated pair stayed clean
C3_Witness ==
  /\ Deduped
  /\ Len(dd.duplicates_sorted.rows) = 2
  /\ Len(dd.non_duplicates.rows) = 1
  /\ LastValues(dd.duplicates_sorted)[1] = KeyAcme

\* C4: after a process_matched_output that completed, every row the matched
\* file held before the pass is in the rewritten matched file or in the
\* duplicate file, a different file, and in exactly one of them: no row is
\* discarded.
C4_NoRowLost ==
  (dd.op # 0 /\ ~dd.raised) =>
    /\ \A row \in Range(dd.before.rows) :
         \/ row \in Range(fs[ops[dd.op].matched_path].rows)
         \/ row \in Range(fs[DuplicateFile(ops[dd.op].matched_path)].rows)
    /\ DuplicateFile(ops[dd.op].matched_path) # ops[dd.op].matched_path =>
         \A row \in Range(dd.before.rows) :
           Count(dd.before.rows, row)
             = Count(fs[ops[dd.op].matched_path].rows, row)
               + Count(fs[DuplicateFile(ops[dd.op].matched_path)].rows, row)

\* a completed pass over a matched file whose name holds no 'matched': the
\* duplicate file is the matched file itself and a row it held is in no file
C4_RowLost ==
  /\ dd.op # 0
  /\ ~dd.raised
  /\ DuplicateFile(ops[dd.op].matched_path) = ops[dd.op].matched_path
  /\ \E row \in Range(dd.before.rows) : row \notin Range(fs[ops[dd.op].matched_path].rows)

\* C5: no failure aborts the batch: the dedup pass starts only when the
\* matching loop has attempted every operation, and when main has returned the
\* matching loop and the dedup pass have each attempted every operation and no
\* exception has left process_all_matched_outputs.
C5_BatchIsolation ==
  /\ pc = "match" => dedupTried = {} /\ matchTried = 1..(i - 1)
  /\ pc = "dedup" => matchTried = DOMAIN ops /\ dedupTried = 1..(i - 1)
  /\ pc \in {"return", "done"} =>
       /\ matchTried = DOMAIN ops
       /\ dedupTried = DOMAIN ops
       /\ ~escaped

\* the batch is over: the first operation produced no matched file, the second
\* was matched and deduplicated after it, and the last dedup raised
C5_Witness ==
  /\ pc = "done"
  /\ Len(ops) = 6
  /\ ~fs[ops[1].matched_path].exists
  /\ fs[DuplicateFile(ops[2].matched_path)].exists
  /\ dd.raised

\* the left input as read_csv parses it, before renaming and null filtering
Raw1 == read_csv(fs[RunOp.file_path1])

Raw2 == read_csv(fs[RunOp.file_path2])

\* the positions of the identifier and URL columns of the left and right tables
IdIdx1 == ColIdx(run.loaded1, RunOp.id_col1)

UrlIdx1 == ColIdx(run.loaded1, RunOp.url_col1)

IdIdx2 == ColIdx(run.loaded2, RunOp.id_col2)

UrlIdx2 == ColIdx(run.loaded2, RunOp.url_col2)

\* C6 as stated: the identifier of a left record whose identifier or URL is
\* null never appears in the matched or the unmatched table.
C6_AsStated ==
  (run.op # 0 /\ ~run.matched_df.none) =>
    \A r \in DOMAIN Raw1.rows :
      (Raw1.rows[r][IdIdx1] = NaN \/ Raw1.rows[r][UrlIdx1] = NaN)
        => Raw1.rows[r][IdIdx1] \notin (MatchedIds \cup UnmatchedIds)

\* C6 (amended): load_clean_and_rename_dataframe drops exactly the records
\* whose identifier or URL is null, before key extraction; no row of the matched
\* or unmatched table has a null identifier or URL, and an identifier appears
\* in them only if a record with non-null identifier and URL carries it (the
\* identifier of a dropped record appears iff such another record shares it).
C6_NullFiltering ==
  (run.op # 0 /\ ~run.loaded1.none /\ ~run.loaded2.none) =>
    /\ run.loaded1.rows
         = SelectSeq(Raw1.rows, LAMBDA row : row[IdIdx1] # NaN /\ row[UrlIdx1] # NaN)
    /\ run.loaded2.rows
         = SelectSeq(Raw2.rows, LAMBDA row : row[IdIdx2] # NaN /\ row[UrlIdx2] # NaN)
    /\ ~run.keyed1.none => Project(run.keyed1, run.loaded1.cols) = run.loaded1
    /\ ~run.keyed2.none => Project(run.keyed2, run.loaded2.cols) = run.loaded2
    /\ ~run.matched_df.none =>
         /\ \A row \in Range(run.matched_df.rows) : \A k \in 1..4 : row[k] # NaN
         /\ \A row \in Range(run.unmatched_df.rows) : \A k \in 1..2 : row[k] # NaN
         /\ MatchedIds \cup UnmatchedIds = Range(Col(run.loaded1, RunOp.id_col1))
         /\ Range(Col(run.matched_df, RunOp.id_col2)) \subseteq Range(Col(run.loaded2, RunOp.id_col2))

\* a left record with a null URL was dropped and the remaining record was matched
C6_Witness ==
  /\ run.op # 0
  /\ ~run.matched_df.none
  /\ \E r \in DOMAIN Raw1.rows : Raw1.rows[r][UrlIdx1] = NaN /\ Raw1.rows[r][IdIdx1] # NaN
  /\ Len(run.loaded1.rows) < Len(Raw1.rows)
  /\ run.matched_df.rows # <<>>

\* df is None or df.empty
EmptyTable(df) == df.none \/ IsEmpty(df)

\* C7: when a table of an operation is None or empty after null filtering,
\* preprocess_urls returns None for it, match_companies returns None, process
\* ends without a matched or unmatched table and the matched and the unmatched
\* file of the operation are left as they were.
C7_EmptyInput ==
  [][(run'.op # run.op /\ (EmptyTable(run'.loaded1) \/ EmptyTable(run'.loaded2))) =>
       /\ EmptyTable(run'.loaded1) =>
            preprocess_urls(run'.loaded1, ops[run'.op].url_col1, ops[run'.op].company_col1) = None
       /\ EmptyTable(run'.loaded2) =>
            preprocess_urls(run'.loaded2, ops[run'.op].url_col2, ops[run'.op].company_col2) = None
       /\ match_companies(
            preprocess_urls(run'.loaded1, ops[run'.op].url_col1, ops[run'.op].company_col1),
            preprocess_urls(run'.loaded2, ops[run'.op].url_col2, ops[run'.op].company_col2),
            ops[run'.op].company_col1, ops[run'.op].company_col2, ops[run'.op].id_col1,
            ops[run'.op].id_col2, ops[run'.op].url_col1, ops[run'.op].url_col2) = None
       /\ run'.matched_df.none
       /\ run'.unmatched_df.none
       /\ fs'[ops[run'.op].matched_path] = fs[ops[run'.op].matched_path]
       /\ fs'[ops[run'.op].unmatched_path] = fs[ops[run'.op].unmatched_path]
    ]_vars

\* the left file was read but every record of it had a null field: no
\* result, no matched file, no unmatched file
C7_Witness ==
  /\ run.op # 0
  /\ ~run.loaded1.none
  /\ IsEmpty(run.loaded1)
  /\ ~EmptyTable(run.loaded2)
  /\ run.matched_df.none
  /\ ~fs[RunOp.matched_path].exists
  /\ ~fs[RunOp.unmatched_path].exists

\* the number of MatchPairs carrying the identifier of left record r
PairsOfId(r) == Count(Col(run.matched_df, RunOp.id_col1), LeftId(r))

\* C8 as stated: a left identifier appears in at most one MatchPair, whatever
\* the two tables hold.
C8_AsStated ==
  NonEmptyInputs => \A r \in DOMAIN run.keyed1.rows : PairsOfId(r) <= 1

\* C8 (amended): a left identifier appears in at most one MatchPair when no
\* two right records carry the same company key and no two left records carry
\* the identifier; in general it appears in one MatchPair per pair of a left
\* record carrying it and a right record with that left record's key.
C8_PairsPerLeftId ==
  NonEmptyInputs =>
    /\ \A r \in DOMAIN run.keyed1.rows :
         PairsOfId(r) = Cardinality({p \in (DOMAIN run.keyed1.rows) \X (DOMAIN run.keyed2.rows) :
                                       LeftId(p[1]) = LeftId(r) /\ RightKey(p[2]) = LeftKey(p[1])})
    /\ ((\A t, u \in DOMAIN run.keyed2.rows : RightKey(t) = RightKey(u) => t = u)
          /\ (\A q, r \in DOMAIN run.keyed1.rows : LeftId(q) = LeftId(r) => q = r))
         => \A r \in DOMAIN run.keyed1.rows : PairsOfId(r) <= 1

\* two right records with different keys, one of them paired with a left record
C8_Witness ==
  /\ NonEmptyInputs
  /\ Len(run.keyed2.rows) = 2
  /\ RightKey(1) # RightKey(2)
  /\ \A q, r \in DOMAIN run.keyed1.rows : LeftId(q) = LeftId(r) => q = r
  /\ Len(run.matched_df.rows) = 1

\* the MatchPair of left record r and right record t
PairOf(r, t) == <<LeftId(r), RightId(t), LeftUrl(r), RightUrl(t), LeftKey(r), RightKey(t)>>

\* C9: match_companies yields one MatchPair per left record and key-equal
\* right record and nothing else: a left record has as many pairs as there are
\* right records with its key, none if there is none, each carrying the left
\* record's identifier and URL and the right record's identifier and URL.
C9_FanOut ==
  NonEmptyInputs =>
    /\ Len(run.matched_df.rows)
         = Cardinality({p \in (DOMAIN run.keyed1.rows) \X (DOMAIN run.keyed2.rows) :
                          LeftKey(p[1]) = RightKey(p[2])})
    /\ \A row \in Range(run.matched_df.rows) :
         \E r \in DOMAIN run.keyed1.rows, t \in DOMAIN run.keyed2.rows :
           LeftKey(r) = RightKey(t) /\ row = PairOf(r, t)
    /\ \A r \in DOMAIN run.keyed1.rows, t \in DOMAIN run.keyed2.rows :
         Count(run.matched_df.rows, PairOf(r, t))
           = IF LeftKey(r) = RightKey(t)
             THEN Count(run.keyed1.rows, run.keyed1.rows[r]) * Count(run.keyed2.rows, run.keyed2.rows[t])
             ELSE 0

\* http://acme.com on the left, two right records with the key acme.com (written
\* www.acme.com and acme.com/): two pairs for the left record, none unmatched
C9_Witness ==
  /\ NonEmptyInputs
  /\ Len(run.keyed1.rows) = 1
  /\ LeftUrl(1) = UrlAcme
  /\ Len(run.keyed2.rows) = 2
  /\ RightUrl(1) = UrlWwwAcme
  /\ RightId(1) # RightId(2)
  /\ Len(run.matched_df.rows) = 2
  /\ run.unmatched_df.rows = <<>>

\* the URLs that are empty or whitespace only
BlankUrls == {Empty, UrlBlank}

\* C10 as stated: a record whose URL is empty or whitespace only never appears
\* in a MatchPair.
C10_AsStated ==
  NonEmptyInputs =>
    \A row \in Range(run.matched_df.rows) : row[3] \notin BlankUrls /\ row[4] \notin BlankUrls

\* C10 (amended): extract_domain_and_company gives an empty or whitespace-only
\* URL the degenerate key "."; a record with that key is never paired with a
\* record that has another key, and it is paired with every record of the other
\* table whose key is also ".", so two blank URLs do match.  (An empty URL
\* field is null to read_csv and is dropped at load.)
C10_DegenerateKeys ==
  /\ \A u \in BlankUrls : extract_domain_and_company(u) = KeyDot
  /\ NonEmptyInputs =>
       /\ \A r \in DOMAIN run.keyed1.rows : LeftUrl(r) # Empty
       /\ \A row \in Range(run.matched_df.rows) :
            (row[3] \in BlankUrls \/ row[4] \in BlankUrls) => (row[5] = KeyDot /\ row[6] = KeyDot)
       /\ \A r \in DOMAIN run.keyed1.rows :
            LeftUrl(r) \in BlankUrls =>
              /\ LeftKey(r) = KeyDot
              /\ \A t \in DOMAIN run.keyed2.rows :
                   (PairOf(r, t) \in Range(run.matched_df.rows)) <=> (RightKey(t) = KeyDot)

\* a left and a right record with whitespace-only URLs were paired
C10_Witness ==
  /\ NonEmptyInputs
  /\ \E row \in Range(run.matched_df.rows) : row[3] = UrlBlank /\ row[4] = UrlBlank

\* the load of file f fails: no file, no rows, or no identifier or URL column
\* after the renaming
LoadFails(f, id_column, url_column, rename_dict) ==
  \/ ~f.exists
  \/ f.cols = <<>>
  \/ f.rows = <<>>
  \/ id_column \notin Range(Rename(f.cols, rename_dict))
  \/ url_column \notin Range(Rename(f.cols, rename_dict))

LoadFails1(k) ==
  LoadFails(fs[ops[k].file_path1], ops[k].id_col1, ops[k].url_col1, ops[k].rename_dict1)

LoadFails2(k) ==
  LoadFails(fs[ops[k].file_path2], ops[k].id_col2, ops[k].url_col2, ops[k].rename_dict2)

\* C11: when an input file is missing, holds no rows or lacks the identifier
\* or URL column after the renaming, load_clean_and_rename_dataframe returns
\* None, and Matcher.process extracts no keys, matches nothing and leaves the
\* matched and unmatched files of the operation as they were.
C11_LoadFailure ==
  [][run'.op # run.op =>
       /\ LoadFails1(run'.op) =>
            /\ run'.loaded1 = None
            /\ load_clean_and_rename_dataframe(fs[ops[run'.op].file_path1], ops[run'.op].id_col1,
                 ops[run'.op].url_col1, ops[run'.op].rename_dict1) = None
       /\ LoadFails2(run'.op) =>
            /\ run'.loaded2 = None
            /\ load_clean_and_rename_dataframe(fs[ops[run'.op].file_path2], ops[run'.op].id_col2,
                 ops[run'.op].url_col2, ops[run'.op].rename_dict2) = None
       /\ (LoadFails1(run'.op) \/ LoadFails2(run'.op)) =>
            /\ run'.keyed1 = None
            /\ run'.keyed2 = None
            /\ run'.matched_df = None
            /\ run'.unmatched_df = None
            /\ fs'[ops[run'.op].matched_path] = fs[ops[run'.op].matched_path]
            /\ fs'[ops[run'.op].unmatched_path] = fs[ops[run'.op].unmatched_path]
    ]_vars

\* the left file lacks its URL column, the right file is sound: no table, no file
C11_Witness ==
  /\ run.op # 0
  /\ fs[RunOp.file_path1] = NoUrlColumn
  /\ ~run.loaded2.none
  /\ run.loaded2.rows # <<>>
  /\ run.loaded1.none
  /\ run.matched_df.none
  /\ ~fs[RunOp.matched_path].exists
  /\ ~fs[RunOp.unmatched_path].exists

\* the output files of operations a and b after Matcher.process ran for a and
\* then for b on the files f
ArtifactsAfter(f, a, b) ==
  LET f1 == process(f, ops[a], {}).fs
      f2 == process(f1, ops[b], {}).fs
  IN [p \in OutPaths(ops[a]) \cup OutPaths(ops[b]) |-> f2[p]]

\* C12: the operations share no file: running the Brightdata website operation
\* and the LinkedIn company operation in either order leaves the same matched
\* and unmatched files, and the step of one operation changes no file that an
\* operation before it has written.
C12_Independence ==
  /\ (pc = "match" /\ i = 4 /\ Len(ops) = 6) => ArtifactsAfter(fs, 4, 5) = ArtifactsAfter(fs, 5, 4)
  /\ (pc = "dedup" /\ i = 1 /\ Len(ops) = 6 /\ run.op = 6) =>
       \A k \in 1..5 :
         (fs[ops[k].matched_path].exists /\ fs[ops[k].unmatched_path].exists)
           => \A j \in (k + 1)..6 :
                /\ ops[j].matched_path \notin {ops[k].matched_path, ops[k].unmatched_path}
                /\ ops[j].unmatched_path \notin {ops[k].matched_path, ops[k].unmatched_path}

\* the LinkedIn company operation has saved its unmatched table over the
\* unmatched file the Brightdata website operation wrote in the same run
C12_Overwritten ==
  /\ Len(ops) = 6
  /\ run.op = 5
  /\ ~run.matched_df.none
  /\ fs[ops[4].matched_path].exists
  /\ ops[4].unmatched_path = ops[5].unmatched_path
  /\ fs[ops[4].unmatched_path] = to_csv(run.unmatched_df)
  /\ run.unmatched_df.cols = <<"CRM_ID", "LINKEDIN_URL_COMPANY">>

\* a Matcher.process step for operation k has just been taken
Processed(k) == run'.op = k /\ run.op # k

\* a process_matched_output step for operation k has just been taken
Deduplicated(k) == dd'.op = k /\ dd.op # k

\* the step left the file at path p as it was
Kept(p) == fs'[p] = fs[p]

Extracted == arg.fn = "extract" /\ res.done

\* what tldextract finds in the URL as given
BaseParts == TldExtract(BaseUrl(arg))

\* the URL as given is a social-profile URL
Social == BaseParts.domain \in SocialHosts

\* the social-profile URL has its /company/ or /in/ marker after the cut and the decoding
Marked == HasMarker(UnquoteAll(CutAt(BaseUrl(arg), CutStart(BaseUrl(arg)))))

\* the subdomain is kept in the key: the domain name is a country code or a
\* hosting platform name
KeepsSubdomain ==
  /\ BaseParts.subdomain # <<>>
  /\ BaseParts.domain \in (country_codes \cup common_suffixes)

\* C14 as stated: the key of a URL does not change when www. or web. is put
\* before its host or the letters of its scheme and host change case.
C14_AsStated == Extracted => res.variant = res.key

\* C14, what the code guarantees instead: on the standard domain path the key does not change under a
\* www. or web. prefix or a change of case of the scheme, nor under a change
\* of case of the host unless the domain name is a country code or hosting
\* platform name with a subdomain, which is then lost.  On the social-profile
\* path the key of a URL with a /company/ or /in/ marker does not change under
\* the prefix or the case of the scheme; without marker the prefix changes
\* it; and a social host not written in lower case gets the domain key.
C14_Invariance ==
  Extracted =>
    /\ (~Social /\ (~arg.upHost \/ ~KeepsSubdomain)) => res.variant = res.key
    /\ (~Social /\ arg.upHost /\ KeepsSubdomain) => res.variant # res.key
    /\ (Social /\ Marked /\ ~arg.upHost) => res.variant = res.key
    /\ (Social /\ ~Marked /\ ~arg.upHost) => (res.variant = res.key <=> arg.pfx = "")
    /\ (Social /\ arg.upHost) => res.variant = FullDomain(BaseParts)

\* HTTPS://LinkedIn.COM/company/acme-corp gets the key linkedin.com where
\* https://linkedin.com/company/acme-corp gets acme-corp
C14_CaseLost ==
  /\ Extracted
  /\ BaseUrl(arg) = <<"https", "://", "linkedin", ".", "com", "/", "company", "/", "acme-corp">>
  /\ VariantUrl(arg) = <<"HTTPS", "://", "LinkedIn", ".", "COM", "/", "company", "/", "acme-corp">>
  /\ res.key = <<"acme-corp">>
  /\ res.variant = <<"linkedin", "com">>

\* HTTP://WWW.Example.COM has the key of http://example.com
C14_Witness ==
  /\ Extracted
  /\ VariantUrl(arg) = <<"HTTP", "://", "WWW", ".", "Example", ".", "COM">>
  /\ BaseUrl(arg) = <<"http", "://", "example", ".", "com">>
  /\ res.key = <<"example", "com">>
  /\ res.variant = res.key

\* the path without its query string
NoQuery(path) == Before(path, FirstIdx(path, LAMBDA t : t = "?"))

\* the path without its trailing slashes
NoSlashEnd(path) == StripRight(path, {"/", "//"})

\* the path without a trailing about segment
NoAbout(path) ==
  IF path # <<>> /\ path[Len(path)] = "about"
  THEN NoSlashEnd(SubSeq(path, 1, Len(path) - 1)) ELSE path

\* the last token of a path, "" when there is none
LastOf(path) == IF path = <<>> THEN "" ELSE path[Len(path)]

\* the key the statement describes: the last non-empty segment of the path
\* without query string and trailing about segment, decoded, lowercased and
\* stripped
StatedKey == StripNonWord(Lower(Unquote(LastOf(NoAbout(NoSlashEnd(NoQuery(arg.path)))))))

\* the tokens of the universe that have a character other than a letter, a
\* digit or a hyphen
NotAlnumHyphen == {"jane_doe"}

\* C15 as stated: the key of a social-profile URL with a /company/ or /in/
\* marker in its path is the last non-empty path segment after removing the
\* query string and a trailing /about segment and decoding, lowercased, and
\* has only alphanumeric characters and hyphens.
C15_AsStated ==
  (Extracted /\ Social /\ HasMarker(arg.path)) =>
    /\ res.key = <<StatedKey>>
    /\ StatedKey \notin NotAlnumHyphen

\* a segment that begins with the letters about
BeginsAbout == {"about", "aboutus", "about-us", "about-face"}

\* the path up to its first ? or its first slash followed by about (all of it
\* when there is none)
KeptPath(path) ==
  Before(path, FirstIdx([k \in DOMAIN path |->
                           IF path[k] = "?" THEN "cut"
                           ELSE IF path[k] = "/" /\ k < Len(path) /\ path[k + 1] \in BeginsAbout
                                THEN "cut" ELSE "keep"],
                        LAMBDA m : m = "cut"))

\* the last segment of the kept path, decoded, lowercased and without the
\* characters that are no word character and no hyphen
Slug(path) == StripNonWord(Lower(Unquote(LastOf(NoSlashEnd(KeptPath(path))))))

\* the whole URL up to the cut, lowercased and without those characters
WholeUrl(c) == Normalize(UnquoteAll(BuildUrl(c.scheme, "", c.host, KeptPath(c.path), FALSE, FALSE)))

\* C15, what the code computes instead: for a URL whose domain name is linkedin, facebook or
\* zaubacorp in lower case, the URL is cut at its first ? or its first /about
\* (wherever a segment begins with about) and decoded.  If a /company/ or /in/
\* marker is left, the key is the last segment without its trailing slashes,
\* lowercased and without every character that is no letter, digit,
\* underscore or hyphen (so jane_doe keeps its underscore and acme%20corp
\* gives acmecorp); if nothing is left of it the key is the domain key.  If
\* the cut removed the marker, the key is the whole cut URL without those
\* characters.
C15_SocialKey ==
  (Extracted /\ Social /\ HasMarker(arg.path)) =>
    /\ ~HasMarker(KeptPath(arg.path)) => res.key = <<WholeUrl(arg)>>
    /\ (HasMarker(KeptPath(arg.path)) /\ Slug(arg.path) # "") => res.key = <<Slug(arg.path)>>
    /\ (HasMarker(KeptPath(arg.path)) /\ Slug(arg.path) = "") => res.key = FullDomain(BaseParts)
    /\ StripNonWord(res.key[1]) = res.key[1]

\* https://linkedin.com/company/about-face loses its marker with its last
\* segment and gets the whole rest of the URL as its key
C15_MarkerLost ==
  /\ Extracted
  /\ BaseUrl(arg) = <<"https", "://", "linkedin", ".", "com", "/", "company", "/", "about-face">>
  /\ StatedKey = "about-face"
  /\ res.key = <<"httpslinkedincomcompany">>

\* https://www.linkedin.com/company/acme-corp/about gives acme-corp
C15_Witness ==
  /\ Extracted
  /\ VariantUrl(arg) = <<"https", "://", "www", ".", "linkedin", ".", "com",
                          "/", "company", "/", "acme-corp", "/", "about">>
  /\ res.variant = <<"acme-corp">>
  /\ res.key = <<"acme-corp">>

\* C16: the rows of the ambiguous table are in ascending order of the value of
\* the last column (rows without a value come last), so the rows of one value
\* are contiguous and the groups ascend; the duplicate file holds the table
\* in that order.
C16_AmbiguousOrder ==
  Deduped =>
    /\ \A a, b \in DOMAIN dd.duplicates_sorted.rows :
         a < b =>
           /\ LastValues(dd.duplicates_sorted)[a] = NaN => LastValues(dd.duplicates_sorted)[b] = NaN
           /\ LastValues(dd.duplicates_sorted)[b] # NaN =>
                StrRank(LastValues(dd.duplicates_sorted)[a]) <= StrRank(LastValues(dd.duplicates_sorted)[b])
    /\ \A a, b, c \in DOMAIN dd.duplicates_sorted.rows :
         (a < b /\ b < c /\ LastValues(dd.duplicates_sorted)[a] = LastValues(dd.duplicates_sorted)[c])
           => LastValues(dd.duplicates_sorted)[b] = LastValues(dd.duplicates_sorted)[a]
    /\ Range(dd.duplicates_sorted.rows) = Range(dd.duplicates.rows)
    /\ (~dd.raised /\ DuplicateFile(ops[dd.op].matched_path) # ops[dd.op].matched_path)
         => fs[DuplicateFile(ops[dd.op].matched_path)] = to_csv(dd.duplicates_sorted)

\* two interleaved groups came out grouped and ascending
C16_Witness ==
  /\ Deduped
  /\ LastValues(dd.duplicates) = <<KeyBeta, KeyAcme, KeyBeta, KeyAcme>>
  /\ LastValues(dd.duplicates_sorted) = <<KeyAcme, KeyAcme, KeyBeta, KeyBeta>>
  /\ read_csv(fs[DuplicateFile(ops[dd.op].matched_path)]) = dd.duplicates_sorted

\* process_matched_output ran on a table and again on its two outputs
Reran == arg.fn = "dedup" /\ res.done

C18_StageSequencing ==
  Deduped =>
    /\ run.op = dd.op
    /\ ~run.matched_df.none
    /\ dd.before = to_csv(run.matched_df)

\* the operation failed at its load stage and wrote nothing; the dedup pass
\* read the matched file an earlier run left and rewrote it
C18_StaleProcessed ==
  /\ Deduped
  /\ run.op = dd.op
  /\ run.loaded1.none
  /\ run.matched_df.none
  /\ dd.before = File(MatchedCols, <<RowAcme8, RowAcme9, RowBeta>>)
  /\ ~dd.raised
  /\ fs[ops[dd.op].matched_path] = File(MatchedCols, <<RowBeta>>)

\* C19: when the LinkedIn company operation (the fifth) is about to load its
\* inputs, the derived input tables of this run have been generated from the
\* website matched table: generating them now would change no file.
C19_DerivedInputsReady ==
  (pc = "match" /\ i = 5) => get_bd_linkedin_company_urls(fs, {}) = fs

\* the LinkedIn company operation has run and found no input, while the
\* sources and the website matched table from which the inputs are derived
\* are on disk: they are generated only when the next operation starts
C19_LoadedBeforeGenerated ==
  /\ pc = "match"
  /\ i = 6
  /\ run.op = 5
  /\ run.loaded1.none
  /\ ~fs[LinkedinCrmFile].exists
  /\ get_bd_linkedin_company_urls(fs, {})[LinkedinCrmFile].exists
  /\ get_bd_linkedin_company_urls(fs, {})[LinkedinBdFile].exists

\* process_companys ran with the fuzzy strategy
Fuzzed == arg.fn = "fuzzy" /\ res.done

\* the distance of the left key at position a to the right key at position b
Dist(a, b) == levenshtein(arg.crm_companys[a], arg.cd_companys[b])

\* C20: the fuzzy strategy returns one triple per left key, in left input
\* order; with a non-empty list of right keys the triple holds the left key,
\* the first right key at the least edit distance from it, and that distance,
\* whatever the distance is.
C20_FuzzyBest ==
  Fuzzed =>
    /\ Len(res.results) = Len(arg.crm_companys)
    /\ \A a \in DOMAIN arg.crm_companys :
         /\ res.results[a][1] = arg.crm_companys[a]
         /\ arg.cd_companys # <<>> =>
              \E b \in DOMAIN arg.cd_companys :
                /\ res.results[a][2] = arg.cd_companys[b]
                /\ res.results[a][3] = Dist(a, b)
                /\ \A c \in DOMAIN arg.cd_companys : Dist(a, b) <= Dist(a, c)
                /\ \A c \in 1..(b - 1) : Dist(a, c) > Dist(a, b)

\* ab against (b, a): both at distance 1, the first is returned; ba against
\* the same list likewise, and nothing is rejected for being far
C20_Witness ==
  /\ Fuzzed
  /\ arg.crm_companys = << <<"a", "b">>, <<>> >>
  /\ arg.cd_companys = << <<"b">>, <<"a">> >>
  /\ res.results = << << <<"a", "b">>, <<"b">>, 1 >>, << <<>>, <<"b">>, 1 >> >>

====
